---- MODULE Spec2Model ----
(***************************************************************************)
(* A model of the cam crate (src/camera.rs): the Camera value with its     *)
(* orientation mutators and view matrix, CameraPerspective::projection,    *)
(* and model_view_projection.                                              *)
(*                                                                         *)
(* The scalar type T is modelled in exact arithmetic: a scalar is a        *)
(* reduced fraction <<n, d>> with d > 0.  A zero denominator stands for    *)
(* the IEEE results of a division by zero: <<1,0>> is +inf, <<-1,0>> is    *)
(* -inf and <<0,0>> is NaN.  Rounding and overflow are not modelled.       *)
(* An angle is modelled by the point <<sin, cos>> it has on the unit       *)
(* circle.  Vectors are triples, matrices are 4 columns of 4 scalars,      *)
(* as cgmath stores them (m[c][r] is column c, row r).                     *)
(***************************************************************************)
EXTENDS Integers, Sequences, FiniteSets, TLC

VARIABLES cam, last

vars == <<cam, last>>

(* ------------------------------ bounds --------------------------------- *)

MaxCoord == 1

MaxClip == 2

(* ------------------------------ scalars -------------------------------- *)

Abs(n) == IF n < 0 THEN -n ELSE n

RECURSIVE GCD(_, _)
GCD(a, b) == IF b = 0 THEN a ELSE GCD(b, a % b)

Norm(n, d) ==
    LET g == GCD(Abs(n), Abs(d))
        s == IF d < 0 THEN -1 ELSE 1
    IN  <<(s * n) \div g, (s * d) \div g>>

R(n) == <<n, 1>>

Zero == R(0)

One == R(1)

IsFinite(a) == a[2] # 0

RAdd(a, b) == Norm(a[1] * b[2] + b[1] * a[2], a[2] * b[2])

RNeg(a) == <<-a[1], a[2]>>

RSub(a, b) == RAdd(a, RNeg(b))

RMul(a, b) == Norm(a[1] * b[1], a[2] * b[2])

Sign(n) == IF n < 0 THEN -1 ELSE IF n > 0 THEN 1 ELSE 0

\* a / b for a finite or infinite, b finite; x - x and literals are +0, so a
\* zero divisor is +0 and the quotient takes the sign of the dividend.
RDiv(a, b) ==
    IF IsFinite(a)
    THEN IF b[1] = 0 THEN <<Sign(a[1]), 0>>
         ELSE Norm(a[1] * b[2], a[2] * b[1])
    ELSE IF b[1] < 0 THEN <<-a[1], 0>> ELSE a

(* ------------------------------ vectors -------------------------------- *)

Vec(x, y, z) == <<R(x), R(y), R(z)>>

VSub(a, b) == <<RSub(a[1], b[1]), RSub(a[2], b[2]), RSub(a[3], b[3])>>

VAdd(a, b) == <<RAdd(a[1], b[1]), RAdd(a[2], b[2]), RAdd(a[3], b[3])>>

VScale(a, s) == <<RMul(a[1], s), RMul(a[2], s), RMul(a[3], s)>>

dot(a, b) == RAdd(RAdd(RMul(a[1], b[1]), RMul(a[2], b[2])), RMul(a[3], b[3]))

cross(a, b) ==
    <<RSub(RMul(a[2], b[3]), RMul(a[3], b[2])),
      RSub(RMul(a[3], b[1]), RMul(a[1], b[3])),
      RSub(RMul(a[1], b[2]), RMul(a[2], b[1]))>>

\* Quaternion * Vector3: vec + 2 * (v x (v x vec + s * vec)).
rotate_vector(q, vec) ==
    LET tmp == VAdd(cross(q.v, vec), VScale(vec, q.s))
    IN  VAdd(VScale(cross(q.v, tmp), R(2)), vec)

sin(a) == a[1]

cos(a) == a[2]

(* ------------------------------ matrices ------------------------------- *)

Sum4(f) == RAdd(RAdd(RAdd(f[1], f[2]), f[3]), f[4])

Mul(a, b) ==
    [c \in 1..4 |-> [r \in 1..4 |-> Sum4([k \in 1..4 |-> RMul(a[k][r], b[c][k])])]]

Identity == [c \in 1..4 |-> [r \in 1..4 |-> IF c = r THEN One ELSE Zero]]

(* ------------------------------ Camera --------------------------------- *)

Camera_new(position) ==
    [position |-> position,
     right    |-> <<One, Zero, Zero>>,
     up       |-> <<Zero, One, Zero>>,
     forward  |-> <<Zero, Zero, One>>]

\* orthogonal() with the translation entries left unnegated.
orthogonal_unnegated(self) ==
    LET p == self.position
        r == self.right
        u == self.up
        f == self.forward
    IN  <<<<r[1], u[1], f[1], Zero>>,
          <<r[2], u[2], f[2], Zero>>,
          <<r[3], u[3], f[3], Zero>>,
          <<dot(r, p), dot(u, p), dot(f, p), One>>>>

\* orthogonal() with the basis vectors written as the arrays themselves.
orthogonal_transposed(self) ==
    LET p == self.position
        r == self.right
        u == self.up
        f == self.forward
    IN  <<<<r[1], r[2], r[3], Zero>>,
          <<u[1], u[2], u[3], Zero>>,
          <<f[1], f[2], f[3], Zero>>,
          <<RNeg(dot(r, p)), RNeg(dot(u, p)), RNeg(dot(f, p)), One>>>>

orthogonal(self) ==
    LET p == self.position
        r == self.right
        u == self.up
        f == self.forward
    IN  <<<<r[1], u[1], f[1], Zero>>,
          <<r[2], u[2], f[2], Zero>>,
          <<r[3], u[3], f[3], Zero>>,
          <<RNeg(dot(r, p)), RNeg(dot(u, p)), RNeg(dot(f, p)), One>>>>

\* update_right() with the operands of the cross product exchanged.
update_right_swapped(self) == [self EXCEPT !.right = cross(self.forward, self.up)]

\* update_right() reading the right field where it should read forward.
update_right_stale(self) == [self EXCEPT !.right = cross(self.up, self.right)]

update_right(self) == [self EXCEPT !.right = cross(self.up, self.forward)]

\* look_at() with forward pointing from the camera to the point.
look_at_toward(self, point) ==
    update_right([self EXCEPT !.forward = VSub(point, self.position)])

look_at(self, point) ==
    update_right([self EXCEPT !.forward = VSub(self.position, point)])

\* set_yaw_pitch() with each sine and cosine exchanged.
set_yaw_pitch_swapped(self, yaw, pitch) ==
    LET y_s == cos(yaw)
        y_c == sin(yaw)
        p_s == cos(pitch)
        p_c == sin(pitch)
    IN  update_right([self EXCEPT
            !.forward = <<RMul(y_s, p_c), p_s, RMul(y_c, p_c)>>,
            !.up      = <<RMul(y_s, RNeg(p_s)), p_c, RMul(y_c, RNeg(p_s))>>])

set_yaw_pitch(self, yaw, pitch) ==
    LET y_s == sin(yaw)
        y_c == cos(yaw)
        p_s == sin(pitch)
        p_c == cos(pitch)
    IN  update_right([self EXCEPT
            !.forward = <<RMul(y_s, p_c), p_s, RMul(y_c, p_c)>>,
            !.up      = <<RMul(y_s, RNeg(p_s)), p_c, RMul(y_c, RNeg(p_s))>>])

\* set_rotation() rotating the camera's current forward and up.
set_rotation_cumulative(self, rotation) ==
    update_right([self EXCEPT
        !.forward = rotate_vector(rotation, self.forward),
        !.up      = rotate_vector(rotation, self.up)])

set_rotation(self, rotation) ==
    LET forward == <<Zero, Zero, One>>
        up      == <<Zero, One, Zero>>
    IN  update_right([self EXCEPT
            !.forward = rotate_vector(rotation, forward),
            !.up      = rotate_vector(rotation, up)])

(* -------------------------- CameraPerspective -------------------------- *)

pi == Norm(314116, 100000)

Deg360 == 360

\* tan on the angles fov * (pi / 360) of the modelled fields of view
\* (0, 60, 90 and 120 degrees), to four decimals.
tan(x) ==
    CASE x = Zero                 -> Zero
      [] x = Norm(78529, 150000)  -> Norm(5773, 10000)
      [] x = Norm(78529, 100000)  -> Norm(9998, 10000)
      [] x = Norm(78529, 75000)   -> Norm(17315, 10000)

\* projection() dividing by far - near where it should divide by near - far.
projection_far_minus_near(self) ==
    LET Two  == RAdd(One, One)
        f    == RDiv(One, tan(RMul(self.fov, RDiv(pi, R(Deg360)))))
        far  == self.far_clip
        near == self.near_clip
    IN  <<<<RDiv(f, self.aspect_ratio), Zero, Zero, Zero>>,
          <<Zero, f, Zero, Zero>>,
          <<Zero, Zero, RDiv(RAdd(far, near), RSub(far, near)), RNeg(One)>>,
          <<Zero, Zero, RDiv(RMul(RMul(Two, far), near), RSub(far, near)), Zero>>>>

projection(self) ==
    LET Two  == RAdd(One, One)
        f    == RDiv(One, tan(RMul(self.fov, RDiv(pi, R(Deg360)))))
        far  == self.far_clip
        near == self.near_clip
    IN  <<<<RDiv(f, self.aspect_ratio), Zero, Zero, Zero>>,
          <<Zero, f, Zero, Zero>>,
          <<Zero, Zero, RDiv(RAdd(far, near), RSub(near, far)), RNeg(One)>>,
          <<Zero, Zero, RDiv(RMul(RMul(Two, far), near), RSub(near, far)), Zero>>>>

\* model_view_projection() with view as the middle factor.
model_view_projection_view_middle(model, view, proj) == Mul(model, Mul(view, proj))

model_view_projection(model, view, proj) == Mul(model, Mul(proj, view))

(* --------------------------- input domains ----------------------------- *)

Coords == (-1)..MaxCoord

Vectors == {Vec(x, y, z) : x \in Coords, y \in Coords, z \in Coords}

Positions == {Vec(0, 0, 0), Vec(1, -1, 0), Vec(0, 1, 1)}

\* <<sin, cos>> of 0, pi/2, pi, atan(3/4) and pi/2 + atan(3/4).
Angles ==
    {<<Zero, One>>, <<One, Zero>>, <<Zero, R(-1)>>,
     <<Norm(3, 5), Norm(4, 5)>>, <<Norm(4, 5), Norm(-3, 5)>>}

Quat(s, x, y, z) == [s |-> s, v |-> <<x, y, z>>]

QuatIdentity == Quat(One, Zero, Zero, Zero)

\* Unit quaternions: the identity, half turns about x and about (0,3/5,4/5),
\* and the turn by 2*atan(4/3) about y.
Rotations ==
    {QuatIdentity,
     Quat(Zero, One, Zero, Zero),
     Quat(Zero, Zero, Norm(3, 5), Norm(4, 5)),
     Quat(Norm(3, 5), Zero, Norm(4, 5), Zero)}

Fovs == {R(0), R(60), R(90), R(120)}

Clips == {R(n) : n \in 0..MaxClip} \cup {R(100)}

Aspects == {R(-1), R(0), R(1), R(2)}

Perspectives ==
    {[fov |-> v, near_clip |-> n, far_clip |-> f, aspect_ratio |-> a] :
        v \in Fovs, n \in Clips, f \in Clips, a \in Aspects}

Perspective90 ==
    [fov |-> R(90), near_clip |-> R(1), far_clip |-> R(100), aspect_ratio |-> R(1)]

Matrices ==
    {Identity,
     orthogonal(Camera_new(Vec(1, 2, 3))),
     orthogonal(set_yaw_pitch(Camera_new(Vec(0, 0, 0)), <<One, Zero>>, <<Zero, One>>)),
     orthogonal(look_at(Camera_new(Vec(0, 1, 0)), Vec(1, 0, 2))),
     \* the shape projection() returns: f = 2, near_clip = 1, far_clip = 2
     <<<<R(2), Zero, Zero, Zero>>, <<Zero, R(2), Zero, Zero>>,
       <<Zero, Zero, R(-3), R(-1)>>, <<Zero, Zero, R(-4), Zero>>>>}

(* ------------------------------ actions -------------------------------- *)

Call(op, args, ret) == [op |-> op, args |-> args, ret |-> ret]

Init ==
    \E position \in Positions :
        /\ cam = Camera_new(position)
        /\ last = Call("new", <<position>>, <<>>)

LookAt ==
    \E point \in Vectors :
        /\ cam' = look_at(cam, point)
        /\ last' = Call("look_at", <<point>>, <<>>)

SetYawPitch ==
    \E yaw \in Angles, pitch \in Angles :
        /\ cam' = set_yaw_pitch(cam, yaw, pitch)
        /\ last' = Call("set_yaw_pitch", <<yaw, pitch>>, <<>>)

SetRotation ==
    \E rotation \in Rotations :
        /\ cam' = set_rotation(cam, rotation)
        /\ last' = Call("set_rotation", <<rotation>>, <<>>)

Orthogonal ==
    /\ cam' = cam
    /\ last' = Call("orthogonal", <<>>, orthogonal(cam))

Fields == {"position", "up", "right", "forward"}

FieldValues == {Vec(1, 0, 0), Vec(0, 1, 1), Vec(-1, 2, 0)}

\* A caller's assignment to one of the public fields.
WriteField ==
    \E f \in Fields, v \in FieldValues :
        /\ cam' = [cam EXCEPT ![f] = v]
        /\ last' = Call("write", <<f, v>>, <<>>)

Projection ==
    \E self \in Perspectives :
        /\ last' = Call("projection", <<self>>, projection(self))
        /\ UNCHANGED cam

ModelViewProjection ==
    \E model \in Matrices, view \in Matrices, proj \in Matrices :
        /\ last' = Call("model_view_projection", <<model, view, proj>>,
                        model_view_projection(model, view, proj))
        /\ UNCHANGED cam

Next == LookAt \/ SetYawPitch \/ SetRotation \/ Orthogonal

Spec == Init /\ [][Next]_vars

NextFields == WriteField \/ SetRotation \/ Orthogonal

SpecFields == Init /\ [][NextFields]_vars

\* The two pure functions, applied to inputs drawn from the domains above.
InitOrigin ==
    /\ cam = Camera_new(Vec(0, 0, 0))
    /\ last = Call("new", <<Vec(0, 0, 0)>>, <<>>)

NextProjection == Projection

SpecProjection == InitOrigin /\ [][NextProjection]_vars

NextMVP == ModelViewProjection

SpecMVP == InitOrigin /\ [][NextMVP]_vars

(* ------------------------------ properties ----------------------------- *)

\* Matrix4 * Vector4.
MulVec(m, v) == [r \in 1..4 |-> Sum4([k \in 1..4 |-> RMul(m[k][r], v[k])])]

Point4(v) == <<v[1], v[2], v[3], One>>

Origin4 == <<Zero, Zero, Zero, One>>

\* The entry the source writes at [i][j] of the array a matrix is built from.
Entry(m, i, j) == m[i + 1][j + 1]

Mutators == {"look_at", "set_yaw_pitch", "set_rotation"}

CanonicalBasis(c) ==
    /\ c.forward = <<Zero, Zero, One>>
    /\ c.up = <<Zero, One, Zero>>
    /\ c.right = <<One, Zero, Zero>>

\* C1: in every state reached from Camera::new by look_at, set_yaw_pitch and
\* set_rotation calls, right is the cross product up x forward.
C1_RightIsUpCrossForward == cam.right = cross(cam.up, cam.forward)

\* A look_at that turned the camera away from the default orientation, on a
\* camera whose up was set by an earlier call.
C1_Witness ==
    /\ last.op = "look_at"
    /\ cam.up # <<Zero, One, Zero>>
    /\ cam.right # <<One, Zero, Zero>>
    /\ cam.right # <<Zero, Zero, Zero>>

\* C2: the view matrix of a freshly constructed camera at p maps the point
\* (p, 1) to the origin (0, 0, 0, 1), and is the identity matrix for p = 0.
C2_NewOrthogonal ==
    (last.op = "orthogonal" /\ cam = Camera_new(cam.position)) =>
        /\ MulVec(last.ret, Point4(cam.position)) = Origin4
        /\ \A c \in 1..3, r \in 1..4 :
               last.ret[c][r] = IF c = r THEN One ELSE Zero
        /\ last.ret[4] = Point4(VSub(Vec(0, 0, 0), cam.position))
        /\ (cam.position = Vec(0, 0, 0) => last.ret = Identity)

\* orthogonal() called on a default-oriented camera away from the origin.
C2_Witness ==
    /\ last.op = "orthogonal"
    /\ cam = Camera_new(Vec(1, -1, 0))

\* C3: look_at(point) sets forward to position - point, right to
\* (old up) x (new forward), and leaves up and position as they were.
C3_LookAt ==
    [][last'.op = "look_at" =>
         /\ cam'.forward = VSub(cam.position, last'.args[1])
         /\ cam'.right = cross(cam.up, cam'.forward)
         /\ cam'.up = cam.up
         /\ cam'.position = cam.position]_vars

\* A look_at at a point other than the position, with a non-default up.
C3_Witness ==
    /\ last.op = "look_at"
    /\ last.args[1] # cam.position
    /\ cam.up # <<Zero, One, Zero>>
    /\ cam.forward = VSub(cam.position, last.args[1])

\* C4: set_rotation(q) is not cumulative: from any reachable camera it
\* leaves the basis that q gives on a freshly constructed camera (q applied
\* to (0,0,1) and (0,1,0)), a second set_rotation(q) changes nothing, and
\* position is unchanged.
C4_SetRotationNotCumulative ==
    [][last'.op = "set_rotation" =>
         LET q == last'.args[1]
             fresh == set_rotation(Camera_new(cam.position), q)
         IN  /\ cam'.forward = rotate_vector(q, <<Zero, Zero, One>>)
             /\ cam'.up = rotate_vector(q, <<Zero, One, Zero>>)
             /\ cam' = fresh
             /\ set_rotation(cam', q) = cam'
             /\ cam'.position = cam.position]_vars

\* A set_rotation by a rotation other than the identity.
C4_Witness ==
    /\ last.op = "set_rotation"
    /\ last.args[1] # QuatIdentity
    /\ ~CanonicalBasis(cam)

\* C5: set_yaw_pitch(0, 0) and set_rotation(identity) each leave the default
\* orientation of Camera::new: forward (0,0,1), up (0,1,0), right (1,0,0).
C5_ResetToDefault ==
    (\/ last.op = "set_yaw_pitch" /\ last.args = <<<<Zero, One>>, <<Zero, One>>>>
     \/ last.op = "set_rotation" /\ last.args = <<QuatIdentity>>) =>
        /\ CanonicalBasis(cam)
        /\ cam = Camera_new(cam.position)

\* set_yaw_pitch(0, 0) on a camera away from the origin.
C5_Witness ==
    /\ last.op = "set_yaw_pitch"
    /\ last.args = <<<<Zero, One>>, <<Zero, One>>>>
    /\ cam.position # Vec(0, 0, 0)

\* C6: after look_at, set_yaw_pitch or set_rotation, if up and forward are
\* orthogonal then right is orthogonal to both of them.
C6_RightOrthogonal ==
    (last.op \in Mutators /\ dot(cam.up, cam.forward) = Zero) =>
        /\ dot(cam.right, cam.up) = Zero
        /\ dot(cam.right, cam.forward) = Zero

\* A look_at that left a forward orthogonal to up, not of unit length, and
\* a right that is not the zero vector.
C6_Witness ==
    /\ last.op = "look_at"
    /\ dot(cam.up, cam.forward) = Zero
    /\ dot(cam.forward, cam.forward) \notin {Zero, One}
    /\ cam.right # <<Zero, Zero, Zero>>

Basis4 ==
    {<<One, Zero, Zero, Zero>>, <<Zero, One, Zero, Zero>>,
     <<Zero, Zero, One, Zero>>, <<Zero, Zero, Zero, One>>}

\* C7: model_view_projection(model, view, projection) is the product
\* model * (projection * view): it is (model * projection) * view, it acts on
\* a vector as view, then projection, then model, and it is the identity
\* for three identity matrices.
C7_ModelViewProjection ==
    last.op = "model_view_projection" =>
        LET model == last.args[1]
            view  == last.args[2]
            proj  == last.args[3]
        IN  /\ last.ret = Mul(Mul(model, proj), view)
            /\ \A v \in Basis4 :
                   MulVec(last.ret, v) = MulVec(model, MulVec(proj, MulVec(view, v)))
            /\ (model = Identity /\ view = Identity /\ proj = Identity
                    => last.ret = Identity)

\* A call where the order of the arguments matters: the result differs from
\* the product taken with view in the middle.
C7_Witness ==
    /\ last.op = "model_view_projection"
    /\ last.ret # Mul(last.args[1], Mul(last.args[2], last.args[3]))
    /\ last.ret # Mul(Mul(last.args[1], last.args[2]), last.args[3])

\* C8: for near_clip # far_clip, projection() has (far+near)/(near-far) at
\* [2][2], -1 at [2][3], 2*far*near/(near-far) at [3][2], 0 at [3][3] and 0
\* at every entry other than [0][0], [1][1], [2][2], [2][3], [3][2], whatever
\* fov and aspect_ratio are; for fov 90, near 1, far 100, aspect 1 the entry
\* [2][2] is -101/99 and [2][3] is -1.
C8_Projection ==
    last.op = "projection" =>
        LET self == last.args[1]
            far  == self.far_clip
            near == self.near_clip
            m    == last.ret
        IN  /\ near # far =>
                /\ IsFinite(Entry(m, 2, 2))
                /\ RMul(Entry(m, 2, 2), RSub(near, far)) = RAdd(far, near)
                /\ Entry(m, 2, 3) = R(-1)
                /\ IsFinite(Entry(m, 3, 2))
                /\ RMul(Entry(m, 3, 2), RSub(near, far)) = RMul(R(2), RMul(far, near))
                /\ Entry(m, 3, 3) = Zero
                /\ \A i \in 0..3, j \in 0..3 :
                       <<i, j>> \notin {<<0, 0>>, <<1, 1>>, <<2, 2>>, <<2, 3>>, <<3, 2>>}
                           => Entry(m, i, j) = Zero
            /\ self = Perspective90 =>
                /\ Entry(m, 2, 2) = Norm(-101, 99)
                /\ Entry(m, 2, 3) = R(-1)

\* projection() of fov 90, near_clip 1, far_clip 100, aspect_ratio 1.
C8_Witness ==
    /\ last.op = "projection"
    /\ last.args[1] = Perspective90

FromRows(rows) == [c \in 1..4 |-> [r \in 1..4 |-> rows[r][c]]]

Rotation4(c) ==
    FromRows(<<<<c.right[1], c.right[2], c.right[3], Zero>>,
               <<c.up[1], c.up[2], c.up[3], Zero>>,
               <<c.forward[1], c.forward[2], c.forward[3], Zero>>,
               <<Zero, Zero, Zero, One>>>>)

Translation4(t) ==
    FromRows(<<<<One, Zero, Zero, t[1]>>,
               <<Zero, One, Zero, t[2]>>,
               <<Zero, Zero, One, t[3]>>,
               <<Zero, Zero, Zero, One>>>>)

\* C9: for any position p and any basis, orthogonal() returns R * T(-p) with
\* R of rows (right,0), (up,0), (forward,0), (0,0,0,1): it maps (v, 1) to
\* (dot(right, v-p), dot(up, v-p), dot(forward, v-p), 1), so p to the origin,
\* and the call changes no field of the camera.
C9_Orthogonal ==
    [][last'.op = "orthogonal" =>
         LET p == cam.position
         IN  /\ last'.ret = Mul(Rotation4(cam), Translation4(VSub(Vec(0, 0, 0), p)))
             /\ \A v \in Vectors :
                    MulVec(last'.ret, Point4(v)) =
                        <<dot(cam.right, VSub(v, p)), dot(cam.up, VSub(v, p)),
                          dot(cam.forward, VSub(v, p)), One>>
             /\ MulVec(last'.ret, Point4(p)) = Origin4
             /\ cam' = cam]_vars

\* orthogonal() on a camera away from the origin whose basis is not
\* orthogonal and whose right is not up x forward.
C9_Witness ==
    /\ last.op = "orthogonal"
    /\ cam.position # Vec(0, 0, 0)
    /\ cam.right # cross(cam.up, cam.forward)
    /\ dot(cam.up, cam.forward) # Zero
    /\ dot(cam.right, cam.position) # Zero

\* C10: in every state reached from Camera::new by look_at, set_yaw_pitch
\* and set_rotation calls, up, right and forward are of unit length and
\* mutually orthogonal.
C10_Orthonormal ==
    /\ dot(cam.up, cam.up) = One
    /\ dot(cam.right, cam.right) = One
    /\ dot(cam.forward, cam.forward) = One
    /\ dot(cam.up, cam.right) = Zero
    /\ dot(cam.up, cam.forward) = Zero
    /\ dot(cam.right, cam.forward) = Zero

\* The part of C10 the code keeps: after set_yaw_pitch and set_rotation the
\* basis is orthonormal.
C10_OrthonormalUnlessLookAt == last.op \in {"new", "set_yaw_pitch", "set_rotation"} => C10_Orthonormal

====
